---- MODULE Spec2Model ----
(***************************************************************************)
(* Incremental table-to-stream sync of main.go: main starts one syncTable  *)
(* goroutine per entry of trackingTables; every goroutine cycles           *)
(* fetchData -> json.Marshal -> sendSchemaInChunks -> upsert of            *)
(* tracking_table -> time.Sleep.                                           *)
(***************************************************************************)
EXTENDS Integers, Sequences, FiniteSets, TLC

\* ------------------------------------------------------------------ bounds
MaxId == 3          \* largest identity value a source table can hold
Limit == 2          \* LIMIT 1000 of the query of fetchData, scaled down
chunkSize == 3      \* 5 * 1024 * 1024 of sendSchemaInChunks, scaled down
MaxRestarts == 1    \* how often the process is stopped and started again
MaxLen == 5         \* longest payload of the chunking specification
MaxChunk == 3       \* largest part size of the chunking specification

\* ------------------------------------------------------- program constants
RetryDelay == 10        \* time.Sleep(10 * time.Second)
SteadyInterval == 60    \* time.Sleep(1 * time.Minute), in seconds

\* The list of main, cut to its first two entries.
trackingTables ==
    << [TableName |-> "accounts", LastSentID |-> 0],
       [TableName |-> "account_balances", LastSentID |-> 0] >>

Loops == 1..Len(trackingTables)
TableNames == {trackingTables[i].TableName : i \in Loops}
Ids == 1..MaxId
NoRow == 0 - 1          \* tracking_table holds no row for the table
Bytes == {"a", "b"}     \* alphabet of the chunking specification

VARIABLES
    perIteration,   \* TRUE: the build gives `tracking` a fresh instance per
                    \* iteration of the range loop (go >= 1.22); FALSE: one
                    \* instance that every &tracking points to
    next,           \* index of the entry main's range loop handles next
    tracking,       \* the TrackingTable instances &tracking can point to
    pc,             \* position of every syncTable goroutine
    data,           \* ids of the rows of the goroutine's current batch
    lastID,         \* second result of fetchData
    schemaJSON,     \* payload handed to sendSchemaInChunks
    chunkSz,        \* chunkSize local of sendSchemaInChunks
    part,           \* loop index i of sendSchemaInChunks
    sent,           \* messages written by the current sendSchemaInChunks
    sleep,          \* seconds of the time.Sleep the goroutine is in
    halted,         \* log.Fatal has ended the process
    rows,           \* ids present in every source table
    store,          \* tracking_table: table_name -> last_sent_id
    topic,          \* messages that have appeared on the "data" topic
    restarts,       \* number of process restarts so far
    lastArg,        \* history: last value passed to the upsert, per table
    published,      \* history: ids of the rows of the batches for which
                    \* sendSchemaInChunks returned nil, per table
    ownLast,        \* history: value the goroutine itself last assigned
    retry,          \* history: batch whose publish failed, until the next
                    \* fetch that returns without an error
    cycle           \* history: fetches of the goroutine so far (saturating)
                    \* while no call failed and no row was inserted since
                    \* the goroutine started, Disturbed afterwards

vars == << perIteration, next, tracking, pc, data, lastID, schemaJSON,
           chunkSz, part, sent, sleep, halted, rows, store, topic, restarts,
           lastArg, published, ownLast, retry, cycle >>

CycleCap == (MaxId \div Limit) + 2

\* ---------------------------------------------------------------- helpers
Min(S) == CHOOSE x \in S : \A y \in S : x <= y
Max(S) == CHOOSE x \in S : \A y \in S : x >= y

RECURSIVE SortAsc(_)
\* ORDER BY id ASC
SortAsc(S) == IF S = {} THEN << >>
              ELSE LET m == Min(S) IN << m >> \o SortAsc(S \ {m})

\* mutant of Take: the LIMIT clause is lost
TakeAll(s, n) == s

\* LIMIT n
Take(s, n) == SubSeq(s, 1, IF Len(s) < n THEN Len(s) ELSE n)

Range(s) == {s[k] : k \in 1..Len(s)}

Digits == << "0", "1", "2", "3", "4", "5", "6", "7", "8", "9" >>

RECURSIVE Itoa(_)
\* fmt.Sprintf("%d", n) for n >= 0
Itoa(n) == IF n < 10 THEN Digits[n + 1]
           ELSE Itoa(n \div 10) \o Digits[(n % 10) + 1]

\* mutant of Query: WHERE id >= ? in place of WHERE id > ?
QueryFromOffset(t, lastSentID) ==
    Take(SortAsc({id \in rows[t] : id >= lastSentID}), Limit)

\* SELECT * FROM t WHERE id > ? ORDER BY id ASC LIMIT 1000
Query(t, lastSentID) ==
    Take(SortAsc({id \in rows[t] : id > lastSentID}), Limit)

RECURSIVE ScanMaxID(_, _, _)
\* the rows.Next() loop of fetchData: maxID starts at 0, id > maxID raises it
\* (the driver hands every id over as a positive int64, so the type
\* assertion entry["id"].(int64) succeeds)
ScanMaxID(rs, k, maxID) ==
    IF k > Len(rs) THEN maxID
    ELSE ScanMaxID(rs, k + 1, IF rs[k] > maxID THEN rs[k] ELSE maxID)

RECURSIVE JoinRows(_, _)
JoinRows(rs, k) ==
    IF k > Len(rs) THEN << >>
    ELSE (IF k > 1 THEN << "," >> ELSE << >>) \o << Itoa(rs[k]) >>
         \o JoinRows(rs, k + 1)

\* json.Marshal(data): "[" row "," row ... "]", one token per row object
Marshal(rs) == << "[" >> \o JoinRows(rs, 1) \o << "]" >>

\* mutant of TotalParts: the division truncates, math.Ceil is lost
TotalPartsTruncated(len, cs) == len \div cs

\* int(math.Ceil(float64(len(schemaData)) / float64(chunkSize)))
TotalParts(len, cs) == (len + cs - 1) \div cs

PartStart(i, cs) == i * cs

PartEnd(len, i, cs) ==
    LET end == PartStart(i, cs) + cs IN IF end > len THEN len ELSE end

\* schemaData[start:end]
PartBytes(schemaData, i, cs) ==
    SubSeq(schemaData, PartStart(i, cs) + 1, PartEnd(Len(schemaData), i, cs))

\* the kafka.Message of sendSchemaInChunks; `of` is history: the payload the
\* part was cut from
Message(schemaData, i, cs) ==
    [ Key |-> "schema_key",
      Value |-> PartBytes(schemaData, i, cs),
      schema_id |-> "unique_schema_id",
      part_number |-> Itoa(i),
      total_parts |-> Itoa(TotalParts(Len(schemaData), cs)),
      of |-> schemaData ]

\* the instance the goroutine's *TrackingTable points to
Cell(i) == IF perIteration THEN i ELSE 0

Name(i) == trackingTables[i].TableName

Disturbed == 0 - 1

Bump(k) == IF k = Disturbed \/ k = CycleCap THEN k ELSE k + 1

ZeroTracking == [TableName |-> "", LastSentID |-> 0]

\* largest id of a published batch, per table
pubMax == [t \in TableNames |-> Max(published[t] \cup {0})]

\* ------------------------------------------------------------------- Init
Volatile ==
    /\ next = 1
    /\ tracking = [c \in 0..Len(trackingTables) |-> ZeroTracking]
    /\ pc = [i \in Loops |-> "idle"]
    /\ data = [i \in Loops |-> << >>]
    /\ lastID = [i \in Loops |-> 0]
    /\ schemaJSON = [i \in Loops |-> << >>]
    /\ chunkSz = [i \in Loops |-> chunkSize]
    /\ part = [i \in Loops |-> 0]
    /\ sent = [i \in Loops |-> << >>]
    /\ sleep = [i \in Loops |-> 0]
    /\ halted = FALSE
    /\ ownLast = [i \in Loops |-> 0]
    /\ retry = [i \in Loops |-> << >>]
    /\ cycle = [i \in Loops |-> 0]

Init ==
    /\ perIteration \in BOOLEAN
    /\ Volatile
    /\ rows \in [TableNames -> {1..n : n \in 0..MaxId}]
    /\ store = [t \in TableNames |-> NoRow]
    /\ topic = {}
    /\ restarts = 0
    /\ lastArg = [t \in TableNames |-> NoRow]
    /\ published = [t \in TableNames |-> {}]

\* ------------------------------------------------------------------- main
\* for _, tracking := range trackingTables { go syncTable(name, &tracking, w) }
Spawn(i) ==
    /\ ~halted
    /\ next = i
    /\ tracking' = [tracking EXCEPT ![Cell(i)] = trackingTables[i]]
    /\ ownLast' = [ownLast EXCEPT ![i] = trackingTables[i].LastSentID]
    /\ pc' = [pc EXCEPT ![i] = "fetch"]
    /\ next' = i + 1
    /\ UNCHANGED << perIteration, data, lastID, schemaJSON, chunkSz,
                    part, sent, sleep, halted, rows, store, topic, restarts,
                    lastArg, published, retry, cycle >>

\* -------------------------------------------------------------- syncTable
\* the goroutine enters time.Sleep(d); the locals of the iteration are dead
ToSleep(i, d) ==
    /\ pc' = [pc EXCEPT ![i] = "sleep"]
    /\ sleep' = [sleep EXCEPT ![i] = d]
    /\ data' = [data EXCEPT ![i] = << >>]
    /\ lastID' = [lastID EXCEPT ![i] = 0]
    /\ schemaJSON' = [schemaJSON EXCEPT ![i] = << >>]
    /\ part' = [part EXCEPT ![i] = 0]
    /\ sent' = [sent EXCEPT ![i] = << >>]

\* fetchData returns (nil, lastSentID, err); the caller sleeps 10 s
FetchQueryError(i) ==
    /\ ~halted
    /\ pc[i] = "fetch"
    /\ ToSleep(i, RetryDelay)
    /\ cycle' = [cycle EXCEPT ![i] = Disturbed]
    /\ UNCHANGED << perIteration, next, tracking, chunkSz, halted, rows,
                    store, topic, restarts, lastArg, published, ownLast,
                    retry >>

\* fetchData returns no rows: len(data) > 0 fails, the caller sleeps 1 min
FetchEmpty(i) ==
    /\ ~halted
    /\ pc[i] = "fetch"
    /\ Query(Name(i), tracking[Cell(i)].LastSentID) = << >>
    /\ ToSleep(i, SteadyInterval)
    /\ cycle' = [cycle EXCEPT ![i] = Bump(cycle[i])]
    /\ retry' = [retry EXCEPT ![i] = << >>]
    /\ UNCHANGED << perIteration, next, tracking, chunkSz, halted, rows,
                    store, topic, restarts, lastArg, published, ownLast >>

\* mutant of FetchMarshalFatal: the goroutine returns, the process lives on
FetchMarshalReturn(i) ==
    /\ ~halted
    /\ pc[i] = "fetch"
    /\ retry' = [retry EXCEPT ![i] = << >>]
    /\ LET lastSentID == tracking[Cell(i)].LastSentID
           rs == Query(Name(i), lastSentID)
       IN /\ rs # << >>
          /\ data' = [data EXCEPT ![i] = rs]
          /\ lastID' = [lastID EXCEPT ![i] = ScanMaxID(rs, 1, 0)]
    /\ pc' = [pc EXCEPT ![i] = "fatal"]
    /\ cycle' = [cycle EXCEPT ![i] = Disturbed]
    /\ UNCHANGED << perIteration, next, tracking, schemaJSON, chunkSz, part,
                    sent, sleep, halted, rows, store, topic, restarts,
                    lastArg, published, ownLast >>

\* fetchData returns rows and json.Marshal fails: log.Fatal ends the process
FetchMarshalFatal(i) ==
    /\ ~halted
    /\ pc[i] = "fetch"
    /\ retry' = [retry EXCEPT ![i] = << >>]
    /\ LET lastSentID == tracking[Cell(i)].LastSentID
           rs == Query(Name(i), lastSentID)
       IN /\ rs # << >>
          /\ data' = [data EXCEPT ![i] = rs]
          /\ lastID' = [lastID EXCEPT ![i] = ScanMaxID(rs, 1, 0)]
    /\ pc' = [pc EXCEPT ![i] = "fatal"]
    /\ halted' = TRUE
    /\ cycle' = [cycle EXCEPT ![i] = Disturbed]
    /\ UNCHANGED << perIteration, next, tracking, schemaJSON, chunkSz, part,
                    sent, sleep, rows, store, topic, restarts, lastArg,
                    published, ownLast >>

\* fetchData returns rows, json.Marshal succeeds, sendSchemaInChunks is entered
FetchBatch(i) ==
    /\ ~halted
    /\ pc[i] = "fetch"
    /\ retry' = [retry EXCEPT ![i] = << >>]
    /\ LET lastSentID == tracking[Cell(i)].LastSentID
           rs == Query(Name(i), lastSentID)
       IN /\ rs # << >>
          /\ data' = [data EXCEPT ![i] = rs]
          /\ lastID' = [lastID EXCEPT ![i] = ScanMaxID(rs, 1, 0)]
          /\ schemaJSON' = [schemaJSON EXCEPT ![i] = Marshal(rs)]
    /\ chunkSz' = [chunkSz EXCEPT ![i] = chunkSize]
    /\ part' = [part EXCEPT ![i] = 0]
    /\ sent' = [sent EXCEPT ![i] = << >>]
    /\ pc' = [pc EXCEPT ![i] = "send"]
    /\ cycle' = [cycle EXCEPT ![i] = Bump(cycle[i])]
    /\ UNCHANGED << perIteration, next, tracking, sleep, halted, rows, store,
                    topic, restarts, lastArg, published, ownLast >>

\* one iteration of the for loop of sendSchemaInChunks, WriteMessages succeeds
SendPart(i) ==
    /\ ~halted
    /\ pc[i] = "send"
    /\ part[i] < TotalParts(Len(schemaJSON[i]), chunkSz[i])
    /\ LET msg == Message(schemaJSON[i], part[i], chunkSz[i])
       IN /\ topic' = topic \cup {msg}
          /\ sent' = [sent EXCEPT ![i] = Append(sent[i], msg)]
    /\ part' = [part EXCEPT ![i] = part[i] + 1]
    /\ UNCHANGED << perIteration, next, tracking, pc, data, lastID,
                    schemaJSON, chunkSz, sleep, halted, rows, store, restarts,
                    lastArg, published, ownLast, retry, cycle >>

\* WriteMessages fails: sendSchemaInChunks returns err, the caller sleeps 10 s
SendError(i) ==
    /\ ~halted
    /\ pc[i] = "send"
    /\ part[i] < TotalParts(Len(schemaJSON[i]), chunkSz[i])
    /\ retry' = [retry EXCEPT ![i] = data[i]]
    /\ cycle' = [cycle EXCEPT ![i] = Disturbed]
    /\ ToSleep(i, RetryDelay)
    /\ UNCHANGED << perIteration, next, tracking, chunkSz, halted,
                    rows, store, topic, restarts, lastArg, published, ownLast >>

\* i < totalParts fails: sendSchemaInChunks returns nil
SendReturn(i) ==
    /\ ~halted
    /\ pc[i] = "send"
    /\ ~(part[i] < TotalParts(Len(schemaJSON[i]), chunkSz[i]))
    /\ pc' = [pc EXCEPT ![i] = "assign"]
    /\ published' = [published EXCEPT ![Name(i)] = @ \cup Range(data[i])]
    /\ UNCHANGED << perIteration, next, tracking, data, lastID,
                    schemaJSON, chunkSz, part, sent, sleep, halted, rows,
                    store, topic, restarts, lastArg, ownLast, retry, cycle >>

\* tracking.LastSentID = lastID
Assign(i) ==
    /\ ~halted
    /\ pc[i] = "assign"
    /\ tracking' = [tracking EXCEPT ![Cell(i)].LastSentID = lastID[i]]
    /\ ownLast' = [ownLast EXCEPT ![i] = lastID[i]]
    /\ pc' = [pc EXCEPT ![i] = "commit"]
    /\ UNCHANGED << perIteration, next, data, lastID, schemaJSON,
                    chunkSz, part, sent, sleep, halted, rows, store, topic,
                    restarts, lastArg, published, retry, cycle >>

\* db.Exec("INSERT ... ON DUPLICATE KEY UPDATE ...", tableName,
\* tracking.LastSentID, tracking.LastSentID) succeeds; the goroutine sleeps 1 min
CommitOk(i) ==
    /\ ~halted
    /\ pc[i] = "commit"
    /\ store' = [store EXCEPT ![Name(i)] = tracking[Cell(i)].LastSentID]
    /\ lastArg' = [lastArg EXCEPT ![Name(i)] = tracking[Cell(i)].LastSentID]
    /\ ToSleep(i, SteadyInterval)
    /\ UNCHANGED << perIteration, next, tracking, chunkSz, halted,
                    rows, topic, restarts, published, ownLast, cycle,
                    retry >>

\* mutant of CommitError: the goroutine sleeps 10 s and goes on
CommitErrorRetried(i) ==
    /\ ~halted
    /\ pc[i] = "commit"
    /\ lastArg' = [lastArg EXCEPT ![Name(i)] = tracking[Cell(i)].LastSentID]
    /\ ToSleep(i, RetryDelay)
    /\ cycle' = [cycle EXCEPT ![i] = Disturbed]
    /\ UNCHANGED << perIteration, next, tracking, chunkSz, halted, rows,
                    store, topic, restarts, published, ownLast, retry >>

\* the upsert fails: result.Error != nil, syncTable returns
CommitError(i) ==
    /\ ~halted
    /\ pc[i] = "commit"
    /\ lastArg' = [lastArg EXCEPT ![Name(i)] = tracking[Cell(i)].LastSentID]
    /\ pc' = [pc EXCEPT ![i] = "returned"]
    /\ cycle' = [cycle EXCEPT ![i] = Disturbed]
    /\ UNCHANGED << perIteration, next, tracking, data, lastID,
                    schemaJSON, chunkSz, part, sent, sleep, halted, rows,
                    store, topic, restarts, published, ownLast,
                    retry >>

\* time.Sleep returns, the for loop of syncTable starts its next iteration
Wake(i) ==
    /\ ~halted
    /\ pc[i] = "sleep"
    /\ pc' = [pc EXCEPT ![i] = "fetch"]
    /\ sleep' = [sleep EXCEPT ![i] = 0]
    /\ UNCHANGED << perIteration, next, tracking, data, lastID,
                    schemaJSON, chunkSz, part, sent, halted, rows, store,
                    topic, restarts, lastArg, published, ownLast, retry,
                    cycle >>

\* ------------------------------------------------------------ environment
\* another client inserts a row; the identity column hands out the next id
Insert(t) ==
    /\ Cardinality(rows[t]) < MaxId
    /\ rows' = [rows EXCEPT ![t] = @ \cup {Max(@ \cup {0}) + 1}]
    /\ cycle' = [i \in Loops |-> IF Name(i) = t /\ pc[i] # "idle"
                                THEN Disturbed ELSE cycle[i]]
    /\ UNCHANGED << perIteration, next, tracking, pc, data, lastID,
                    schemaJSON, chunkSz, part, sent, sleep, halted, store,
                    topic, restarts, lastArg, published, ownLast, retry >>

\* the process is stopped and started again: main runs from its first line
\* with LastSentID: 0 in every entry; the database and the topic persist
Restart ==
    /\ restarts < MaxRestarts
    /\ restarts' = restarts + 1
    /\ next' = 1
    /\ tracking' = [c \in 0..Len(trackingTables) |-> ZeroTracking]
    /\ pc' = [i \in Loops |-> "idle"]
    /\ data' = [i \in Loops |-> << >>]
    /\ lastID' = [i \in Loops |-> 0]
    /\ schemaJSON' = [i \in Loops |-> << >>]
    /\ chunkSz' = [i \in Loops |-> chunkSize]
    /\ part' = [i \in Loops |-> 0]
    /\ sent' = [i \in Loops |-> << >>]
    /\ sleep' = [i \in Loops |-> 0]
    /\ halted' = FALSE
    /\ ownLast' = [i \in Loops |-> 0]
    /\ retry' = [i \in Loops |-> << >>]
    /\ cycle' = [i \in Loops |-> 0]
    /\ UNCHANGED << perIteration, rows, store, topic, lastArg, published >>

Next ==
    \/ \E i \in Loops : Spawn(i)
    \/ \E i \in Loops : FetchQueryError(i)
    \/ \E i \in Loops : FetchEmpty(i)
    \/ \E i \in Loops : FetchMarshalFatal(i)
    \/ \E i \in Loops : FetchBatch(i)
    \/ \E i \in Loops : SendPart(i)
    \/ \E i \in Loops : SendError(i)
    \/ \E i \in Loops : SendReturn(i)
    \/ \E i \in Loops : Assign(i)
    \/ \E i \in Loops : CommitOk(i)
    \/ \E i \in Loops : CommitError(i)
    \/ \E i \in Loops : Wake(i)
    \/ \E t \in TableNames : Insert(t)

\* one lifetime of the process
Spec == Init /\ [][Next]_vars

\* runs in which no call fails and no row is inserted, with restarts
NextRestart ==
    \/ \E i \in Loops : Spawn(i)
    \/ \E i \in Loops : FetchEmpty(i)
    \/ \E i \in Loops : FetchBatch(i)
    \/ \E i \in Loops : SendPart(i)
    \/ \E i \in Loops : SendReturn(i)
    \/ \E i \in Loops : Assign(i)
    \/ \E i \in Loops : CommitOk(i)
    \/ \E i \in Loops : Wake(i)
    \/ Restart

SpecRestart == Init /\ [][NextRestart]_vars

\* every step goroutine i can take while its calls fail only now and then,
\* the upsert and json.Marshal never fail and no row is inserted; Spawn(i) is
\* the step of main that starts it
LoopStep(i) ==
    \/ Spawn(i)
    \/ FetchQueryError(i)
    \/ FetchEmpty(i)
    \/ FetchBatch(i)
    \/ SendPart(i)
    \/ SendError(i)
    \/ SendReturn(i)
    \/ Assign(i)
    \/ CommitOk(i)
    \/ Wake(i)

NextLive == \E i \in Loops : LoopStep(i)

\* the go scheduler lets main and every goroutine that can run take its next
\* step, and every time.Sleep ends
SpecLive ==
    /\ Init
    /\ [][NextLive]_vars
    /\ \A i \in Loops : WF_vars(LoopStep(i))

\* sendSchemaInChunks alone: goroutine 1 has just entered it with a payload
\* and a part size drawn from bounded sets
BoundedSeq(S, n) == UNION {[1..k -> S] : k \in 0..n}

InitChunk ==
    /\ perIteration \in BOOLEAN
    /\ next = Len(trackingTables) + 1
    /\ tracking = [c \in 0..Len(trackingTables) |-> ZeroTracking]
    /\ pc = [i \in Loops |-> IF i = 1 THEN "send" ELSE "returned"]
    /\ data = [i \in Loops |-> << >>]
    /\ lastID = [i \in Loops |-> 0]
    /\ schemaJSON \in [Loops -> BoundedSeq(Bytes, MaxLen)]
    /\ \A i \in Loops : i # 1 => schemaJSON[i] = << >>
    /\ chunkSz \in [Loops -> 1..MaxChunk]
    /\ \A i \in Loops : i # 1 => chunkSz[i] = chunkSize
    /\ part = [i \in Loops |-> 0]
    /\ sent = [i \in Loops |-> << >>]
    /\ sleep = [i \in Loops |-> 0]
    /\ halted = FALSE
    /\ rows = [t \in TableNames |-> {}]
    /\ store = [t \in TableNames |-> NoRow]
    /\ topic = {}
    /\ restarts = 0
    /\ lastArg = [t \in TableNames |-> NoRow]
    /\ published = [t \in TableNames |-> {}]
    /\ ownLast = [i \in Loops |-> 0]
    /\ retry = [i \in Loops |-> << >>]
    /\ cycle = [i \in Loops |-> Disturbed]

NextChunk ==
    \/ SendPart(1)
    \/ SendError(1)
    \/ SendReturn(1)

SpecChunk == InitChunk /\ [][NextChunk]_vars

\* ================================================================= claims
\* steps of goroutine i, recognised from the states before and after
FetchStep(i) == pc[i] = "fetch" /\ pc'[i] # "fetch" /\ restarts' = restarts

FetchFailed(i) == pc'[i] = "sleep" /\ sleep'[i] = RetryDelay

PublishFailStep(i) ==
    pc[i] = "send" /\ pc'[i] = "sleep" /\ restarts' = restarts

AssignStep(i) == pc[i] = "assign" /\ pc'[i] = "commit"

CommitStep(i) ==
    pc[i] = "commit" /\ pc'[i] \in {"sleep", "returned"} /\ restarts' = restarts

CommitOkStep(i) ==
    pc[i] = "commit" /\ pc'[i] = "sleep" /\ restarts' = restarts

\* sendSchemaInChunks has returned nil for the batch goroutine i holds
Published(i) ==
    /\ pc[i] \in {"assign", "commit"}
    /\ data[i] # << >>
    /\ Len(sent[i]) >= 1

Offset(i) == tracking[Cell(i)].LastSentID

Least(a, b) == IF a < b THEN a ELSE b

CeilDiv(a, b) == (a + b - 1) \div b

RECURSIVE Concat(_, _)
\* the Values of the messages msgs[k..], joined in order
Concat(msgs, k) ==
    IF k > Len(msgs) THEN << >> ELSE msgs[k].Value \o Concat(msgs, k + 1)

\* ---------------------------------------------------------------------- C1
\* C1: every commit issued for a table carries the largest id of the batch
\* whose publish returned success earlier in the same cycle of that table's
\* goroutine, and a commit for a table is issued only by such a cycle.
C1_CommitCarriesPublishedMax ==
    [][ /\ \A i \in Loops :
             CommitStep(i) =>
                /\ Published(i)
                /\ lastArg'[Name(i)] = Max(Range(data[i]))
        /\ \A t \in TableNames :
             (store'[t] # store[t] \/ lastArg'[t] # lastArg[t]) =>
                \E i \in Loops : Name(i) = t /\ CommitStep(i) /\ Published(i)
      ]_vars

\* ---------------------------------------------------------------------- C2
\* C2: for every table the values passed to commit never decrease.
C2_MonotonicCommits ==
    [][ \A t \in TableNames :
          lastArg[t] # NoRow /\ restarts' = restarts => lastArg'[t] >= lastArg[t]
      ]_vars

\* ---------------------------------------------------------------------- C3
\* C3: after each successful commit the stored last_sent_id of the table is
\* the largest id of any row of that table that was ever part of a
\* successfully published batch.
C3_StoreIsHighWaterMark ==
    [][ \A i \in Loops :
          CommitOkStep(i) => store'[Name(i)] = pubMax[Name(i)]
      ]_vars

\* ---------------------------------------------------------------------- C4
\* C4: a failed publish leaves the offsets alone; from the failed attempt to
\* the next fetch the table's in-memory and stored offsets do not move; and
\* that fetch returns every row of the failed batch again.
C4_RetryAfterPublishFailure ==
    [][ \A i \in Loops :
          /\ PublishFailStep(i) => tracking' = tracking /\ store' = store
          /\ (retry[i] # << >> /\ restarts' = restarts) =>
                /\ Offset(i)' = Offset(i)
                /\ store'[Name(i)] = store[Name(i)]
          /\ (FetchStep(i) /\ retry[i] # << >> /\ ~FetchFailed(i)) =>
                /\ pc'[i] \in {"send", "fatal"}
                /\ Range(retry[i]) \subseteq Range(data'[i])
      ]_vars

\* ---------------------------------------------------------------------- C5
\* C5: when the tracking record of a table holds N at a restart, the first
\* fetch of the table's goroutine after the restart uses since_id = N and so
\* returns only rows with id > N, and the stored offset does not fall below N.
C5_ResumeAfterRestart ==
    [][ \A i \in Loops :
          /\ (FetchStep(i) /\ restarts >= 1 /\ cycle[i] = 0
                /\ store[Name(i)] # NoRow) =>
                /\ Offset(i) = store[Name(i)]
                /\ \A id \in Range(data'[i]) : id > store[Name(i)]
          /\ (restarts >= 1 /\ restarts' = restarts) =>
                store'[Name(i)] >= store[Name(i)]
      ]_vars

\* ---------------------------------------------------------------------- C6
\* C6: when sendSchemaInChunks returns nil, the parts it wrote, concatenated
\* in part_number order, are the payload; part k covers the bytes
\* [k*max, min((k+1)*max, len)); and every part's total_parts header is the
\* number of parts written.
C6_ChunkRoundTrip ==
    \A i \in Loops :
        pc[i] = "assign" =>
            /\ Concat(sent[i], 1) = schemaJSON[i]
            /\ \A k \in 1..Len(sent[i]) :
                 /\ sent[i][k].part_number = Itoa(k - 1)
                 /\ sent[i][k].total_parts = Itoa(Len(sent[i]))
                 /\ sent[i][k].Value =
                      [j \in 1..(Least(k * chunkSz[i], Len(schemaJSON[i]))
                                   - (k - 1) * chunkSz[i])
                         |-> schemaJSON[i][(k - 1) * chunkSz[i] + j]]

\* a payload of three parts, the last one short, has been sent completely
C6_Witness ==
    /\ pc[1] = "assign"
    /\ Len(schemaJSON[1]) = 2 * chunkSz[1] + 1
    /\ chunkSz[1] >= 2
    /\ Len(sent[1]) = 3

\* ---------------------------------------------------------------------- C7
\* C7: a fetch that finds no row beyond the offset publishes nothing, commits
\* nothing, leaves the in-memory and the stored offsets as they are and puts
\* the goroutine to sleep for the steady-state interval.
C7_EmptySteadyState ==
    [][ \A i \in Loops :
          (/\ FetchStep(i)
           /\ ~FetchFailed(i)
           /\ {id \in rows[Name(i)] : id > Offset(i)} = {}) =>
              /\ topic' = topic
              /\ store' = store
              /\ lastArg' = lastArg
              /\ tracking' = tracking
              /\ pc'[i] = "sleep"
              /\ sleep'[i] = SteadyInterval
      ]_vars

\* a goroutine has caught up with a full table and then fetched nothing
C7_Witness ==
    \E i \in Loops :
        /\ pc[i] = "sleep"
        /\ sleep[i] = SteadyInterval
        /\ rows[Name(i)] = Ids
        /\ store[Name(i)] = MaxId
        /\ cycle[i] = CeilDiv(MaxId, Limit) + 1

\* ---------------------------------------------------------------------- C8
\* C8: for a table that holds the ids 1..N, with offset 0 at the start, no
\* failure and no insert, the k-th cycle fetches (k-1)*L+1 .. min(k*L, N) and
\* commits min(k*L, N) for k = 1..ceil(N/L); later cycles fetch nothing and
\* neither publish nor commit.
C8_BacklogCatchUp ==
    \A i \in Loops :
        cycle[i] >= 1 =>
            LET N == Cardinality(rows[Name(i)])
                k == cycle[i]
                hi == Least(k * Limit, N)
                lo == (k - 1) * Limit
            IN  /\ rows[Name(i)] = 1..N
                /\ IF k <= CeilDiv(N, Limit)
                   THEN /\ pc[i] \in {"send", "assign", "commit"} =>
                              data[i] = [j \in 1..(hi - lo) |-> lo + j]
                        /\ pc[i] \in {"sleep", "fetch"} =>
                              store[Name(i)] = hi
                        /\ pc[i] # "returned"
                   ELSE /\ pc[i] \in {"sleep", "fetch"}
                        /\ pc[i] = "sleep" => sleep[i] = SteadyInterval
                        /\ store[Name(i)] = (IF N = 0 THEN NoRow ELSE N)

\* ---------------------------------------------------------------------- C9
\* C9: main starts one goroutine per entry of trackingTables, no two
\* goroutines share an in-memory offset, and every fetch of a goroutine uses
\* the initial offset or the value the goroutine itself assigned last.
C9_ExclusiveOffsetOwnership ==
    [][ /\ \A i \in Loops : (pc[i] # "idle") <=> (i < next)
        /\ \A i, j \in Loops :
             (i # j /\ pc[i] # "idle" /\ pc[j] # "idle") => Cell(i) # Cell(j)
        /\ \A i \in Loops : FetchStep(i) => Offset(i) = ownLast[i]
      ]_vars

\* --------------------------------------------------------------------- C10
\* C10: any two messages on the topic with the same schema_id carry the same
\* total_parts and were cut from the same payload.
C10_UnambiguousReassembly ==
    \A m1, m2 \in topic :
        m1.schema_id = m2.schema_id =>
            /\ m1.total_parts = m2.total_parts
            /\ m1.of = m2.of

\* the upsert of goroutine i did not take effect
CommitFailStep(i) ==
    /\ pc[i] = "commit"
    /\ pc'[i] # "commit"
    /\ restarts' = restarts
    /\ store'[Name(i)] # lastArg'[Name(i)]

\* last_sent_id of the table as a fetch offset: 0 while there is no record
Stored(t) == IF store[t] = NoRow THEN 0 ELSE store[t]

\* --------------------------------------------------------------------- C16
\* C16: when the upsert fails, the in-memory offset of the table is not
\* greater than the offset stored last.
C16_OffsetNotAdvancedOnCommitFailure ==
    [][ \A i \in Loops :
          CommitFailStep(i) => Offset(i)' <= Stored(Name(i))'
      ]_vars

\* --------------------------------------------------------------------- C17
\* C17: a failed upsert ends the goroutine of that table and nothing else:
\* the goroutine returns and never fetches, sends or commits again, the
\* table's record stays as it is, the process is not halted and the other
\* goroutines stay where they are, free to go on.
C17_CommitFailureEndsOneLoop ==
    [][ \A i \in Loops :
          /\ CommitFailStep(i) =>
                /\ pc'[i] = "returned"
                /\ halted' = halted
                /\ \A j \in Loops \ {i} : pc'[j] = pc[j]
          /\ (pc[i] = "returned" /\ restarts' = restarts) =>
                /\ pc'[i] = "returned"
                /\ sent'[i] = sent[i]
                /\ store'[Name(i)] = store[Name(i)]
                /\ lastArg'[Name(i)] = lastArg[Name(i)]
      ]_vars

\* goroutine 1 has returned on its first upsert, which failed, and goroutine
\* 2 has brought its full table to the end since
C17_Witness ==
    /\ pc[1] = "returned"
    /\ store[Name(1)] = NoRow
    /\ lastArg[Name(1)] # NoRow
    /\ rows[Name(2)] = Ids
    /\ store[Name(2)] = MaxId
    /\ pc[2] = "sleep"
    /\ ~halted

\* --------------------------------------------------------------------- C18
\* C18: when json.Marshal fails in one goroutine the process is halted: the
\* batch that failed is neither sent nor committed, and from then on no
\* goroutine moves, nothing is written to the topic and no record changes.
C18_MarshalFailureHaltsProcess ==
    [][ /\ \A i \in Loops :
             (FetchStep(i) /\ pc'[i] = "fatal") =>
                /\ halted'
                /\ topic' = topic
                /\ store' = store
                /\ lastArg' = lastArg
        /\ ((\E i \in Loops : pc[i] = "fatal") /\ restarts' = restarts) =>
                /\ pc' = pc
                /\ topic' = topic
                /\ store' = store
                /\ lastArg' = lastArg
                /\ sent' = sent
      ]_vars

\* the process was halted on a full batch while another goroutine was in
\* the middle of sendSchemaInChunks
C18_Witness ==
    \E i, j \in Loops :
        /\ pc[i] = "fatal"
        /\ halted
        /\ pc[j] = "send"
        /\ part[j] = 1
        /\ Len(data[i]) = Limit
        /\ rows[Name(i)] = Ids

\* --------------------------------------------------------------------- C19
\* C19: a fetchData call that returns no error returns the rows with the
\* (at most Limit) smallest ids above the offset it was given, in ascending
\* order; for a result with rows the second result is the id of the last row
\* and lies above the offset; for a result without rows it is 0.
C19_FetchContract ==
    [][ \A i \in Loops :
          (FetchStep(i) /\ ~FetchFailed(i)) =>
              LET s == Offset(i)
                  beyond == {id \in rows[Name(i)] : id > s}
                  n == Least(Cardinality(beyond), Limit)
                  got == data'[i]
              IN  IF beyond = {}
                  THEN /\ pc'[i] = "sleep"
                       /\ got = << >>
                       /\ lastID'[i] = 0
                  ELSE /\ pc'[i] \in {"send", "fatal"}
                       /\ Len(got) = n
                       /\ Range(got) \subseteq beyond
                       /\ \A k \in 1..(n - 1) : got[k] < got[k + 1]
                       /\ \A id \in beyond \ Range(got) : id > got[n]
                       /\ lastID'[i] = got[n]
                       /\ lastID'[i] > s
      ]_vars

\* a fetch has returned Limit rows and left a row of the table behind
C19_Witness ==
    \E i \in Loops :
        /\ pc[i] = "send"
        /\ Len(data[i]) = Limit
        /\ Max(rows[Name(i)]) > lastID[i]

\* --------------------------------------------------------------------- C20
\* C20: sendSchemaInChunks of an empty payload writes one part of length 0
\* whose total_parts header is 1.
C20_EmptyPayloadOnePart ==
    \A i \in Loops :
        (pc[i] = "assign" /\ schemaJSON[i] = << >>) =>
            /\ Len(sent[i]) = 1
            /\ sent[i][1].Value = << >>
            /\ sent[i][1].total_parts = "1"

\* --------------------------------------------------------------------- C11
\* some goroutine is in the 10 s sleep that follows a failed call
RetryWait == \E i \in Loops : pc[i] = "sleep" /\ sleep[i] = RetryDelay

\* every row of every table has been in a published batch and the stored
\* offset of every table is the largest id of the table
Delivered ==
    \A t \in TableNames :
        /\ rows[t] \subseteq published[t]
        /\ Stored(t) = Max(rows[t] \cup {0})

\* C11: when every goroutine keeps running and the failures of fetchData and
\* of sendSchemaInChunks end at some time, every row of every table is
\* eventually part of a published batch and the offset of every table
\* eventually is the largest id of the table.
C11_EventualDelivery == (<>[](~RetryWait)) => <>Delivered

\* --------------------------------------------------------------------- C12
\* C12: the ids of a published batch are strictly ascending, and every row
\* fetched for a table after a commit for it succeeded has an id above the
\* ids of all rows of the batches published for the table before.
C12_AscendingOrder ==
    [][ \A i \in Loops :
          /\ (pc[i] = "send" /\ pc'[i] = "assign") =>
                \A k \in 1..(Len(data[i]) - 1) : data[i][k] < data[i][k + 1]
          /\ (FetchStep(i) /\ store[Name(i)] # NoRow) =>
                \A id \in Range(data'[i]) : id > pubMax[Name(i)]
      ]_vars

\* --------------------------------------------------------------------- C13
\* C13: whenever fetchData is called for a table with offset s, every row of
\* the table with 0 < id <= s has been part of a published batch of the
\* table (rows are only inserted with ids above all present ones).
C13_NoRowSkipped ==
    [][ \A i \in Loops :
          FetchStep(i) =>
              \A id \in rows[Name(i)] :
                  id <= Offset(i) => id \in published[Name(i)]
      ]_vars

\* --------------------------------------------------------------------- C14
\* C14: a fetchData call that fails (recognised by the 10 s sleep the
\* goroutine enters from the fetch) sends nothing and commits nothing and
\* leaves the in-memory and the stored offsets alone; until the sleep ends
\* the offset the goroutine will fetch with next stays what it was, and the
\* goroutine fetches again when the sleep ends.
C14_RetryAfterFetchFailure ==
    [][ \A i \in Loops :
          /\ (FetchStep(i) /\ FetchFailed(i)) =>
                /\ topic' = topic
                /\ store' = store
                /\ lastArg' = lastArg
                /\ tracking' = tracking
                /\ data'[i] = << >>
          /\ (/\ pc[i] = "sleep"
              /\ sleep[i] = RetryDelay
              /\ retry[i] = << >>
              /\ restarts' = restarts) =>
                /\ Offset(i)' = Offset(i)
                /\ store'[Name(i)] = store[Name(i)]
                /\ pc'[i] \in {"sleep", "fetch"}
      ]_vars

\* --------------------------------------------------------------------- C15
\* C15: when sendSchemaInChunks fails, also after it has written some parts,
\* nothing is committed, the offsets stay, the goroutine sleeps 10 s; the
\* offset stays the same up to the next fetch that returns, which returns the
\* rows of the failed batch again, and sending starts again with part 0.
C15_RetryFromPartZero ==
    [][ \A i \in Loops :
          /\ PublishFailStep(i) =>
                /\ sleep'[i] = RetryDelay
                /\ tracking' = tracking
                /\ store' = store
                /\ lastArg' = lastArg
          /\ (retry[i] # << >> /\ pc[i] \in {"sleep", "fetch"}
                /\ restarts' = restarts) =>
                /\ Offset(i)' = Offset(i)
                /\ store'[Name(i)] = store[Name(i)]
                /\ lastArg'[Name(i)] = lastArg[Name(i)]
          /\ (FetchStep(i) /\ retry[i] # << >> /\ pc'[i] = "send") =>
                /\ Len(data'[i]) >= Len(retry[i])
                /\ \A k \in 1..Len(retry[i]) : data'[i][k] = retry[i][k]
                /\ part'[i] = 0
                /\ sent'[i] = << >>
      ]_vars

====
